---- MODULE Spec2Model ----
(***************************************************************************)
(* Model of the POST /api/generate handlers of src/server.js.              *)
(*                                                                         *)
(* src/server.js holds two server programs:                                *)
(*   - the Flux handler (lines 1-248): buildFluxInputs, createPrediction,  *)
(*     waitPrediction and the route that chains them;                      *)
(*   - the engine-fallback handler (lines 250-363): SeedEdit 3.0 first,    *)
(*     then Flux Schnell, through replicate.run.                           *)
(*                                                                         *)
(* src/unnamed/part_001 is a third program (SDXL img2img through axios) and *)
(* src/unnamed/part_000 a fourth (Flux Pro, create and poll in one          *)
(* function); each has its own create-and-poll cycle.                      *)
(*                                                                         *)
(* Representation.                                                         *)
(*   Numbers with a fractional part (strength, guidance) are integers in   *)
(*   hundredths: 0.35 is 35, 4.5 is 450, 1.0 is 100.                       *)
(*   The operation tag is a sequence of one-character strings, so that     *)
(*   toLowerCase is computed character by character.                       *)
(*   An image string is a sequence of chunks ("data:image/", "png;",       *)
(*   "base64,", payload), so that stripDataHeader is computed on it; its   *)
(*   length is counted in chunks.                                          *)
(*   A params field is a sequence: <<n>> when its typeof is 'number',      *)
(*   NotANumber (the empty sequence) when it is absent or of another type. *)
(***************************************************************************)
EXTENDS Integers, Sequences, FiniteSets, TLC

VARIABLES
    token,      \* process.env.REPLICATE_API_TOKEN || '' (read once at start)
    server,     \* which program handles the request: flux, fallback (both of
                \* src/server.js), part_001, part_000
    pc,         \* position of the handler: idle, create, poll, run1, run2,
                \* p1create, p1poll, p0images, p0create, p0poll, done
    body,       \* req.body (and req.file for the engine-fallback handler)
    inputs,     \* the upstream job input built by buildFluxInputs
    polls,      \* status-poll fetches called by the polling loop (its index i)
    creates,    \* job-creation fetches issued by createPrediction
    runs,       \* models passed to replicate.run, in call order
    outcomes,   \* outcome of each returned replicate.run: "ok" or "threw"
    logged,     \* messages written by console.error in the fallback handler
    lastStatus, \* status of the last status poll
    response,   \* the HTTP response sent, NoResponse before
    nresp,      \* number of responses sent
    pollUrl     \* the polling URL taken from the creation response, "" if none

vars == <<token, server, pc, body, inputs, polls, creates, runs, outcomes,
          logged, lastStatus, response, nresp, pollUrl>>

\* ------------------------------------------------------------------ bounds

\* Supplied strengths range over -StrengthSpan/2 .. StrengthSpan/2 in steps of 0.5.
StrengthSpan == 3

\* ------------------------------------------------------------- constants

NotANumber == <<>>
IsNumber(v) == Len(v) > 0
Num(v) == v[1]
NoResponse == [status |-> 0, ok |-> FALSE, text |-> "", detail |-> "", image |-> ""]
NoInputs == [image |-> <<>>, strength |-> 0, guidance |-> 0, hasRef |-> FALSE,
             seed |-> NotANumber, width |-> NotANumber, height |-> NotANumber]
NoDetail == ""

DefaultStrength == 35
DefaultGuidance == 450
UseBGuidance == 500
MaxAttempts == 80
P1MaxAttempts == 80
P0MaxAttempts == 80
P0DefaultStrength == 35
P0DefaultGuidance == 450
P0OnlyBGuidance == 500
P0DefaultSide == 1024
TimeoutCode == 504

MODEL == "black-forest-labs/flux-1.1-pro"
\* Mutant of SeedEdit: the two engines tried in the other order.
SeedEditSwapped == "black-forest-labs/flux-schnell"
SeedEdit == "bytedance/seededit-3.0"
FluxSchnell == "black-forest-labs/flux-schnell"

\* --------------------------------------------------------------- helpers

UpperLetters == <<"A","B","C","D","E","F","G","H","I","J","K","L","M",
                  "N","O","P","Q","R","S","T","U","V","W","X","Y","Z">>
LowerLetters == <<"a","b","c","d","e","f","g","h","i","j","k","l","m",
                  "n","o","p","q","r","s","t","u","v","w","x","y","z">>

\* One character of String.prototype.toLowerCase.
LowerChar(c) ==
    IF \E k \in 1..Len(UpperLetters) : UpperLetters[k] = c
    THEN LowerLetters[CHOOSE k \in 1..Len(UpperLetters) : UpperLetters[k] = c]
    ELSE c

\* Mutant of ToLowerCase: the tag compared as sent.
ToLowerCaseIdentity(s) == s

\* String(body.op || '').toLowerCase()
ToLowerCase(s) == [k \in 1..Len(s) |-> LowerChar(s[k])]

\* s.indexOf('base64,') in chunks; 0 when absent (JavaScript's -1).
IndexOfBase64(s) ==
    IF \E k \in 1..Len(s) : s[k] = "base64,"
    THEN CHOOSE k \in 1..Len(s) :
            /\ s[k] = "base64,"
            /\ \A j \in 1..(k - 1) : s[j] # "base64,"
    ELSE 0

stripDataHeader(s) ==
    IF Len(s) = 0 THEN <<>>
    ELSE IF s[1] = "data:image/"
         THEN IF IndexOfBase64(s) > 0
              THEN SubSeq(s, IndexOfBase64(s) + 1, Len(s))
              ELSE s
         ELSE s

\* body.image_base64 || body.image || body.image_b64 || body.b64 || ''
pickB(b) ==
    stripDataHeader(
        IF Len(b.image_base64) > 0 THEN b.image_base64
        ELSE IF Len(b.image) > 0 THEN b.image
        ELSE IF Len(b.image_b64) > 0 THEN b.image_b64
        ELSE IF Len(b.b64) > 0 THEN b.b64
        ELSE <<>>)

hasSomething(v) == Len(v) > 0

\* The operation tags, as the code spells them.
qa_useb    == <<"q","a","-","u","s","e","b">>
qa_replace == <<"q","a","-","r","e","p","l","a","c","e">>
qa_overlay == <<"q","a","-","o","v","e","r","l","a","y">>
qa_insert  == <<"q","a","-","i","n","s","e","r","t">>

\* typeof p.strength === 'number' ? p.strength
\*   : typeof p.param_strength === 'number' ? p.param_strength : 0.35
ParamStrength(p) ==
    IF IsNumber(p.strength) THEN Num(p.strength)
    ELSE IF IsNumber(p.param_strength) THEN Num(p.param_strength)
    ELSE DefaultStrength

\* typeof p.guidance_scale === 'number' ? p.guidance_scale
\*   : typeof p.guidance === 'number' ? p.guidance : 4.5
ParamGuidance(p) ==
    IF IsNumber(p.guidance_scale) THEN Num(p.guidance_scale)
    ELSE IF IsNumber(p.guidance) THEN Num(p.guidance)
    ELSE DefaultGuidance

\* Mutant of BuildStrength: the qa-useb override of the strength left out.
BuildStrengthNoOverride(op, p) == ParamStrength(p)

\* The strength placed in the job input, after the qa-useb override.
BuildStrength(op, p) ==
    IF op = qa_useb THEN 0 ELSE ParamStrength(p)

\* Mutant of BuildGuidance: guidance mapped from strength with the slope's
\* sign wrong (8 - 5 * strength).
BuildGuidanceInverted(op, p) == 800 - 5 * ParamStrength(p)

\* The guidance placed in the job input, after the qa-useb override.
BuildGuidance(op, p) ==
    IF /\ op = qa_useb
       /\ ~IsNumber(p.guidance_scale)
       /\ ~IsNumber(p.guidance)
    THEN UseBGuidance
    ELSE ParamGuidance(p)

\* buildFluxInputs(body): { inputs, op, b64len, hasRef }
buildFluxInputs(b) ==
    LET op  == ToLowerCase(b.op)
        b64 == pickB(b)
        ref == IF hasSomething(b.ref) THEN b.ref ELSE <<>>
    IN  [inputs |-> [image    |-> IF hasSomething(b64)
                                  THEN <<"data:image/", "png;", "base64,">> \o b64
                                  ELSE <<>>,
                     strength |-> BuildStrength(op, b.params),
                     guidance |-> BuildGuidance(op, b.params),
                     hasRef   |-> Len(ref) > 0,
                     seed     |-> b.params.seed,
                     width    |-> b.params.width,
                     height   |-> b.params.height],
         op     |-> op,
         b64len |-> Len(b64),
         hasRef |-> Len(ref) > 0]

\* ['qa-replace', 'qa-overlay', 'qa-insert'].includes(op) && !hasRef
MissingA(op, hasRef) ==
    op \in {qa_replace, qa_overlay, qa_insert} /\ ~hasRef

\* Mutant of MissingB: the guard for qa-useb left out.
MissingBNever(op, b64len) == FALSE

\* op === 'qa-useb' && !inputEcho.hasB
MissingB(op, b64len) ==
    op = qa_useb /\ ~(b64len > 0)

\* Mutant of TokenMissing: createPrediction without its credential check.
TokenNeverMissing(t) == FALSE

\* if (!REPLICATE_TOKEN) in createPrediction
TokenMissing(t) == t = ""

\* if (!REPLICATE_API_TOKEN) in the engine-fallback handler
FallbackTokenMissing(t) == t = ""

\* Mutant of LoopContinues: the bound tested with <= (one iteration too many).
LoopContinuesInclusive(k) == k <= MaxAttempts

\* const getUrl = created?.urls?.get; if (!getUrl)
HasNoPollingUrl(u) == u = ""

\* for (let i = 0; i < 80; i++)
LoopContinues(k) == k < MaxAttempts

IsTerminal(st) == st \in {"succeeded", "failed", "canceled"}

\* const code = err.code || 500; an error without a code has code 0 here.
CatchStatus(code) == IF code = 0 THEN 500 ELSE code

\* image_url of the success response: the first element of an array output,
\* the output itself when it is a string, null otherwise.
ImageUrl(output) ==
    IF output.kind = "array" /\ Len(output.items) > 0 THEN output.items[1]
    ELSE IF output.kind = "string" THEN output.text
    ELSE "null"

\* Array.isArray(out) ? out[0] : out   (engine-fallback handler)
FirstOrSelf(output) ==
    IF output.kind = "array"
    THEN IF Len(output.items) > 0 THEN output.items[1] ELSE "undefined"
    ELSE IF output.kind = "string" THEN output.text
    ELSE "null"

\* ---------------------------------------------------------------- inputs

DataUrl      == <<"data:image/", "png;", "base64,", "iVBOR">>
RawBase64    == <<"iVBOR">>
OtherBase64  == <<"R0lGO">>
HeaderOnly   == <<"data:image/", "png;", "base64,">>

\* Operation tags a caller may send: the empty/default tag, the four tags the
\* code knows, mixed-case spellings, and a tag the code has no branch for.
Ops ==
    { <<>>, qa_useb, qa_replace, qa_overlay, qa_insert,
      <<"Q","A","-","R","e","p","l","a","c","e">>,
      <<"q","a","-","U","S","E","B">>,
      <<"q","a","-","r","e","m","o","v","e">> }

Refs == { <<>>, DataUrl }

\* The four aliases of the secondary image B.
NoB == [image_base64 |-> <<>>, image |-> <<>>, image_b64 |-> <<>>, b64 |-> <<>>]
SecondaryImages ==
    { NoB,
      [NoB EXCEPT !.image_base64 = DataUrl],
      [NoB EXCEPT !.image = HeaderOnly],
      [NoB EXCEPT !.b64 = RawBase64],
      [NoB EXCEPT !.image_b64 = OtherBase64, !.b64 = RawBase64] }

\* Supplied strengths, in hundredths: -1.5, -1.0, ..., 1.5 for StrengthSpan = 3.
Strengths == { 50 * k : k \in (0 - StrengthSpan)..StrengthSpan }

NoParams == [strength |-> NotANumber, param_strength |-> NotANumber,
             guidance_scale |-> NotANumber, guidance |-> NotANumber,
             seed |-> NotANumber, width |-> NotANumber, height |-> NotANumber]

GuidanceChoices ==
    { NoParams,
      [NoParams EXCEPT !.param_strength = <<80>>],
      [NoParams EXCEPT !.guidance_scale = <<700>>],
      [NoParams EXCEPT !.guidance = <<300>>],
      [NoParams EXCEPT !.guidance_scale = <<700>>, !.guidance = <<300>>] }

\* Every strength with no guidance, every guidance choice with no strength and
\* with strength 0.5, and one request that sets seed, width and height.
ParamsSet ==
    { [NoParams EXCEPT !.strength = <<v>>] : v \in Strengths }
    \cup { [g EXCEPT !.strength = st] :
             g \in GuidanceChoices, st \in {NotANumber, <<50>>} }
    \cup { [NoParams EXCEPT !.seed = <<7>>, !.width = <<1024>>, !.height = <<768>>] }

\* Request bodies of the Flux handler.
FluxBodies ==
    { [op |-> o, ref |-> r, image_base64 |-> b.image_base64, image |-> b.image,
       image_b64 |-> b.image_b64, b64 |-> b.b64, params |-> p] :
        o \in Ops, r \in Refs, b \in SecondaryImages, p \in ParamsSet }

\* Uploaded file of the engine-fallback handler (multer's req.file).
NoFile == [buffer |-> <<>>, mimetype |-> ""]
Files == { NoFile,
           [buffer |-> <<"bytes">>, mimetype |-> "image/png"],
           [buffer |-> <<"bytes">>, mimetype |-> ""] }

\* Requests of the engine-fallback handler: req.body.ref and req.file.
FallbackBodies == { [ref |-> r, file |-> f] : r \in Refs, f \in Files }

Tokens == { "", "r8_token" }

\* HTTP statuses of a job-creation call that is not OK.
UpstreamErrorStatuses == { 404, 422, 429, 503 }

PollingUrl == "https://api.replicate.com/v1/predictions/p1"

\* What the job-creation fetch can come back with.
CreateOutcomes ==
    { [kind |-> "throw", status |-> 0, url |-> ""] }
    \cup { [kind |-> "http", status |-> st, url |-> ""] : st \in UpstreamErrorStatuses }
    \cup { [kind |-> "ok", status |-> 201, url |-> u] : u \in {"", PollingUrl} }

NoOutput == [kind |-> "none", items |-> <<>>, text |-> ""]
Outputs ==
    { NoOutput,
      [kind |-> "array", items |-> <<"https://out/1.png", "https://out/2.png">>, text |-> ""],
      [kind |-> "array", items |-> <<>>, text |-> ""],
      [kind |-> "string", items |-> <<>>, text |-> "https://out/1.png"] }

\* What one status poll can come back with.
PollResults ==
    { [kind |-> "throw", status |-> "(threw)", output |-> NoOutput, error |-> ""] }
    \cup { [kind |-> "json", status |-> st, output |-> NoOutput, error |-> ""] :
            st \in {"starting", "processing"} }
    \cup { [kind |-> "json", status |-> "succeeded", output |-> o, error |-> ""] :
            o \in Outputs }
    \cup { [kind |-> "json", status |-> "failed", output |-> NoOutput, error |-> "NSFW content"],
           [kind |-> "json", status |-> "canceled", output |-> NoOutput, error |-> ""] }

\* What one replicate.run call can come back with.
RunErrors == { "Prediction failed", "Request failed with status 402" }
RunOutcomes ==
    { [kind |-> "ok", output |-> o, error |-> ""] : o \in Outputs }
    \cup { [kind |-> "threw", output |-> NoOutput, error |-> e] : e \in RunErrors }

\* ------------------------------------------------------------ state machine

Init ==
    /\ token \in Tokens
    /\ server = "none"
    /\ pc = "idle"
    /\ body = <<>>
    /\ inputs = NoInputs
    /\ polls = 0
    /\ creates = 0
    /\ runs = <<>>
    /\ outcomes = <<>>
    /\ logged = <<>>
    /\ lastStatus = ""
    /\ response = NoResponse
    /\ nresp = 0
    /\ pollUrl = ""

\* Mutant of Respond: the response is sent without the return, so that the
\* handler stays where it is.
RespondNoReturn(code, isOk, text, detail, image) ==
    /\ response' = [status |-> code, ok |-> isOk, text |-> text,
                    detail |-> detail, image |-> image]
    /\ nresp' = nresp + 1
    /\ pc' = pc

\* res.status(code).json({...}): the handler returns after it.
Respond(code, isOk, text, detail, image) ==
    /\ response' = [status |-> code, ok |-> isOk, text |-> text,
                    detail |-> detail, image |-> image]
    /\ nresp' = nresp + 1
    /\ pc' = "done"

\* Flux handler, from the request's arrival to the first await that leaves the
\* process: buildFluxInputs, the two guards, and createPrediction up to its
\* fetch (or its 401 throw, caught by the handler's catch).
FluxReceive ==
    /\ pc = "idle"
    /\ \E b \in FluxBodies :
        LET built == buildFluxInputs(b) IN
        /\ server' = "flux"
        /\ body' = b
        /\ inputs' = built.inputs
        /\ IF MissingA(built.op, built.hasRef)
           THEN /\ Respond(400, FALSE,
                           "Missing A for AB operation; would fall back to txt2img.",
                           NoDetail, "")
                /\ UNCHANGED creates
           ELSE IF MissingB(built.op, built.b64len)
           THEN /\ Respond(400, FALSE, "Missing B for use only B.", NoDetail, "")
                /\ UNCHANGED creates
           ELSE IF TokenMissing(token)
           THEN /\ Respond(CatchStatus(401), FALSE, "REPLICATE_API_TOKEN missing",
                           NoDetail, "")
                /\ UNCHANGED creates
           ELSE /\ creates' = creates + 1
                /\ pc' = "create"
                /\ UNCHANGED <<response, nresp>>
    /\ UNCHANGED <<token, polls, runs, outcomes, logged, lastStatus, pollUrl>>

\* The job-creation fetch comes back: createPrediction's error branch, the
\* handler's polling-URL check, and the entry into waitPrediction.
FluxCreated ==
    /\ pc = "create"
    /\ \E c \in CreateOutcomes :
        IF c.kind = "throw"
        THEN /\ Respond(CatchStatus(0), FALSE, "fetch failed", NoDetail, "")
             /\ UNCHANGED pollUrl
        ELSE IF c.kind = "http"
        THEN /\ Respond(CatchStatus(c.status), FALSE, "Replicate create error",
                        NoDetail, "")
             /\ UNCHANGED pollUrl
        ELSE /\ pollUrl' = c.url
             /\ IF HasNoPollingUrl(c.url)
                THEN Respond(502, FALSE, "No polling URL from Replicate", NoDetail, "")
                ELSE /\ pc' = "poll"
                     /\ UNCHANGED <<response, nresp>>
    /\ UNCHANGED <<token, server, body, inputs, polls, creates, runs, outcomes,
                   logged, lastStatus>>

\* One iteration of waitPrediction's loop (sleep, fetch, json, status test),
\* with what follows it without a further upstream call: the handler's
\* response on a terminal status, or the loop's exit and the 504 throw.
FluxPoll ==
    /\ pc = "poll"
    /\ LoopContinues(polls)
    /\ \E r \in PollResults :
        /\ polls' = polls + 1
        /\ lastStatus' = r.status
        /\ IF r.kind = "throw"
           THEN Respond(CatchStatus(0), FALSE, "fetch failed", NoDetail, "")
           ELSE IF IsTerminal(r.status)
           THEN IF r.status # "succeeded"
                THEN Respond(502, FALSE, r.status, r.error, "")
                ELSE Respond(200, TRUE, "", NoDetail, ImageUrl(r.output))
           ELSE IF LoopContinues(polls + 1)
           THEN UNCHANGED <<pc, response, nresp>>
           ELSE Respond(CatchStatus(TimeoutCode), FALSE, "Timeout waiting prediction",
                        NoDetail, "")
    /\ UNCHANGED <<token, server, body, inputs, creates, runs, outcomes, logged,
                   pollUrl>>

\* let inputImage = ref || null; a file with buffer and mimetype replaces it.
InputImage(b) ==
    IF Len(b.file.buffer) > 0 /\ b.file.mimetype # ""
    THEN <<"data:", b.file.mimetype, ";base64,">> \o b.file.buffer
    ELSE b.ref

\* Engine-fallback handler, from the request's arrival to the first
\* replicate.run call: the token check and the input-image check.
FallbackReceive ==
    /\ pc = "idle"
    /\ \E b \in FallbackBodies :
        /\ server' = "fallback"
        /\ body' = b
        /\ IF FallbackTokenMissing(token)
           THEN /\ Respond(401, FALSE, "Missing REPLICATE_API_TOKEN", NoDetail, "")
                /\ UNCHANGED runs
           ELSE IF Len(InputImage(b)) = 0
           THEN /\ Respond(400, FALSE, "Missing input image (ref or file)", NoDetail, "")
                /\ UNCHANGED runs
           ELSE /\ runs' = Append(runs, SeedEdit)
                /\ pc' = "run1"
                /\ UNCHANGED <<response, nresp>>
    /\ UNCHANGED <<token, inputs, polls, creates, outcomes, logged, lastStatus,
                   pollUrl>>

\* replicate.run("bytedance/seededit-3.0") comes back: success answers, a throw
\* is logged and the handler goes on to replicate.run of Flux Schnell.
FallbackSeedEditReturned ==
    /\ pc = "run1"
    /\ \E o \in RunOutcomes :
        /\ outcomes' = Append(outcomes, o.kind)
        /\ IF o.kind = "ok"
           THEN /\ Respond(200, TRUE, "seededit-3.0", NoDetail, FirstOrSelf(o.output))
                /\ UNCHANGED <<runs, logged>>
           ELSE /\ logged' = Append(logged, o.error)
                /\ runs' = Append(runs, FluxSchnell)
                /\ pc' = "run2"
                /\ UNCHANGED <<response, nresp>>
    /\ UNCHANGED <<token, server, body, inputs, polls, creates, lastStatus, pollUrl>>

\* replicate.run("black-forest-labs/flux-schnell") comes back: success
\* answers, a throw is logged and the handler answers 422.
FallbackFluxReturned ==
    /\ pc = "run2"
    /\ \E o \in RunOutcomes :
        /\ outcomes' = Append(outcomes, o.kind)
        /\ IF o.kind = "ok"
           THEN /\ Respond(200, TRUE, "flux-schnell", NoDetail, FirstOrSelf(o.output))
                /\ UNCHANGED logged
           ELSE /\ logged' = Append(logged, o.error)
                /\ Respond(422, FALSE,
                           "All engines failed (SeedEdit and Flux). Check token, inputs or model availability.",
                           NoDetail, "")
    /\ UNCHANGED <<token, server, body, inputs, polls, creates, runs, lastStatus,
                   pollUrl>>


\* ------------------------------------------------- src/unnamed/part_001

\* Request bodies of part_001: the two images, as data URLs or absent.
P1Bodies == { [imageA |-> a, imageB |-> b] : a \in Refs, b \in Refs }

\* for(let i=0;i<80;i++) of part_001's waitPrediction
P1LoopContinues(k) == k < P1MaxAttempts

\* outUrl of part_001: the first element of a non-empty array output, the
\* output itself when it is a string, null otherwise.
P1OutUrl(output) ==
    IF output.kind = "array" /\ Len(output.items) > 0 THEN output.items[1]
    ELSE IF output.kind = "string" THEN output.text
    ELSE "null"

\* part_001's handler up to createPrediction's axios.post: no validation and
\* no credential check precede it.
P1Receive ==
    /\ pc = "idle"
    /\ \E b \in P1Bodies :
        /\ server' = "part_001"
        /\ body' = b
    /\ creates' = creates + 1
    /\ pc' = "p1create"
    /\ UNCHANGED <<token, inputs, polls, runs, outcomes, logged, lastStatus,
                   response, nresp, pollUrl>>

\* axios.post comes back: a rejection (network error or a status that is not
\* 2xx) is caught and answered 500; otherwise waitPrediction takes the polling
\* URL and throws when there is none.
P1Created ==
    /\ pc = "p1create"
    /\ \E c \in CreateOutcomes :
        IF c.kind # "ok"
        THEN /\ Respond(500, FALSE, "replicate_failed", "create failed", "")
             /\ UNCHANGED pollUrl
        ELSE /\ pollUrl' = c.url
             /\ IF c.url = ""
                THEN Respond(500, FALSE, "replicate_failed",
                             "Error: Missing polling URL", "")
                ELSE /\ pc' = "p1poll"
                     /\ UNCHANGED <<response, nresp>>
    /\ UNCHANGED <<token, server, body, inputs, polls, creates, runs, outcomes,
                   logged, lastStatus>>

\* One iteration of part_001's waitPrediction and what the handler does with
\* its result: succeeded returns, failed and canceled throw, the loop's exit
\* throws 'prediction timeout'; every throw is answered 500.
P1Poll ==
    /\ pc = "p1poll"
    /\ P1LoopContinues(polls)
    /\ \E r \in PollResults :
        /\ polls' = polls + 1
        /\ lastStatus' = r.status
        /\ IF r.kind = "throw"
           THEN Respond(500, FALSE, "replicate_failed", "poll failed", "")
           ELSE IF r.status = "succeeded"
           THEN IF P1OutUrl(r.output) \in {"null", ""}
                THEN Respond(200, TRUE, "No output url from model", NoDetail, "")
                ELSE Respond(200, TRUE, "", NoDetail, P1OutUrl(r.output))
           ELSE IF r.status \in {"failed", "canceled"}
           THEN Respond(500, FALSE, "replicate_failed",
                        IF r.error # "" THEN r.error ELSE "prediction failed", "")
           ELSE IF P1LoopContinues(polls + 1)
           THEN UNCHANGED <<pc, response, nresp>>
           ELSE Respond(500, FALSE, "replicate_failed", "Error: prediction timeout", "")
    /\ UNCHANGED <<token, server, body, inputs, creates, runs, outcomes, logged,
                   pollUrl>>

\* ------------------------------------------------- src/unnamed/part_000

ImageLink == "https://img.example/a.png"

\* Request bodies of part_000: the tag and the two image URLs.
P0Bodies ==
    { [op |-> o, ref_url |-> a, image_url |-> b] :
        o \in {"", "qa-onlyB"}, a \in {"", ImageLink}, b \in {"", ImageLink} }

\* The object build(body) returns, once the images are downloaded.
P0Build(b) ==
    [image    |-> IF b.image_url # "" THEN DataUrl ELSE <<>>,
     strength |-> IF b.op = "qa-onlyB" THEN 0 ELSE P0DefaultStrength,
     guidance |-> IF b.op = "qa-onlyB" THEN P0OnlyBGuidance ELSE P0DefaultGuidance,
     hasRef   |-> b.ref_url # "",
     seed     |-> NotANumber,
     width    |-> <<P0DefaultSide>>,
     height   |-> <<P0DefaultSide>>]

\* for(let i=0;i<80;i++) of part_000's replicate
P0LoopContinues(k) == k < P0MaxAttempts

\* Array.isArray(sj.output)?sj.output[0]:sj.output
P0Out(output) ==
    IF output.kind = "array"
    THEN IF Len(output.items) > 0 THEN output.items[1] ELSE "undefined"
    ELSE IF output.kind = "string" THEN output.text
    ELSE "null"

\* res.json({error:true}) of part_000's catch: HTTP 200 with an error flag.
P0Error == Respond(200, FALSE, "error", NoDetail, "")

\* part_000's handler up to its first fetch: the download of the images when
\* the body names some, the job-creation call otherwise.
P0Receive ==
    /\ pc = "idle"
    /\ \E b \in P0Bodies :
        /\ server' = "part_000"
        /\ body' = b
        /\ IF b.ref_url # "" \/ b.image_url # ""
           THEN /\ pc' = "p0images"
                /\ UNCHANGED <<inputs, creates>>
           ELSE /\ inputs' = P0Build(b)
                /\ creates' = creates + 1
                /\ pc' = "p0create"
    /\ UNCHANGED <<token, polls, runs, outcomes, logged, lastStatus, response,
                   nresp, pollUrl>>

\* urlToDataURL's downloads come back: a rejection is answered {error:true},
\* otherwise build returns and replicate issues the job-creation call.
P0ImagesFetched ==
    /\ pc = "p0images"
    /\ \E fetched \in BOOLEAN :
        IF fetched
        THEN /\ inputs' = P0Build(body)
             /\ creates' = creates + 1
             /\ pc' = "p0create"
             /\ UNCHANGED <<response, nresp>>
        ELSE /\ P0Error
             /\ UNCHANGED <<inputs, creates>>
    /\ UNCHANGED <<token, server, body, polls, runs, outcomes, logged, lastStatus,
                   pollUrl>>

\* The job-creation fetch of replicate comes back. A rejection is answered
\* {error:true}. Any JSON answer, whatever its HTTP status, is read for
\* urls.get and the loop is entered without a test of the URL; the answer to
\* a status that is not OK carries no urls.
P0Created ==
    /\ pc = "p0create"
    /\ \E c \in CreateOutcomes :
        IF c.kind = "throw"
        THEN /\ P0Error
             /\ UNCHANGED pollUrl
        ELSE /\ pollUrl' = c.url
             /\ pc' = "p0poll"
             /\ UNCHANGED <<response, nresp>>
    /\ UNCHANGED <<token, server, body, inputs, polls, creates, runs, outcomes,
                   logged, lastStatus>>

\* One iteration of replicate's loop. fetch is called with the URL as it is:
\* with none (undefined) the call rejects and the catch answers {error:true}.
\* Only succeeded ends the loop; failed and canceled are polled again like any
\* other status; the loop's exit throws "timeout".
P0Poll ==
    /\ pc = "p0poll"
    /\ P0LoopContinues(polls)
    /\ \E r \in PollResults :
        /\ pollUrl = "" => r.kind = "throw"
        /\ polls' = polls + 1
        /\ lastStatus' = r.status
        /\ IF r.kind = "throw"
           THEN P0Error
           ELSE IF r.status = "succeeded"
           THEN Respond(200, FALSE, "image_url", NoDetail, P0Out(r.output))
           ELSE IF P0LoopContinues(polls + 1)
           THEN UNCHANGED <<pc, response, nresp>>
           ELSE P0Error
    /\ UNCHANGED <<token, server, body, inputs, creates, runs, outcomes, logged,
                   pollUrl>>

Next ==
    \/ FluxReceive
    \/ FluxCreated
    \/ FluxPoll
    \/ FallbackReceive
    \/ FallbackSeedEditReturned
    \/ FallbackFluxReturned
    \/ P1Receive
    \/ P1Created
    \/ P1Poll
    \/ P0Receive
    \/ P0ImagesFetched
    \/ P0Created
    \/ P0Poll

Spec == Init /\ [][Next]_vars

\* Every upstream call of the Flux handler returns or throws: a pending
\* job-creation call and a pending status poll are eventually answered.
FairSpec == Spec /\ WF_vars(FluxCreated) /\ WF_vars(FluxPoll)

\* ------------------------------------------------------------------ claims

\* C1: in the Flux handler, when every status poll returns a non-terminal
\* status, waitPrediction issues exactly 80 polls and no 81st, then the
\* timeout error is raised and the request is answered with HTTP 504.
C1_TimeoutAfter80Polls ==
    server = "flux" =>
        /\ polls <= 80
        /\ (polls = 80 /\ lastStatus \in {"starting", "processing"}) =>
               /\ pc = "done"
               /\ nresp = 1
               /\ response.status = 504
               /\ response.text = "Timeout waiting prediction"
        /\ (pc = "done" /\ response.text = "Timeout waiting prediction") =>
               /\ polls = 80
               /\ response.status = 504

\* C1 witness: the 80th poll came back non-terminal and the answer is 504.
C1_Witness ==
    /\ server = "flux"
    /\ polls = 80
    /\ lastStatus = "processing"
    /\ pc = "done"
    /\ response.status = 504

\* C2: the engine-fallback handler calls replicate.run for SeedEdit first and
\* Flux Schnell second; the second call is made if and only if the first
\* threw; the handler stops at the first success, so that N calls are made
\* when the Nth is the first to succeed and 2 when both fail.
C2_FallbackOrder ==
    server = "fallback" =>
        /\ Len(runs) <= 2
        /\ Len(runs) >= 1 => runs[1] = "bytedance/seededit-3.0"
        /\ Len(runs) >= 2 => runs[2] = "black-forest-labs/flux-schnell"
        /\ Len(runs) = 2 <=> (Len(outcomes) >= 1 /\ outcomes[1] = "threw")
        /\ \A n \in 1..Len(outcomes) :
               outcomes[n] = "ok" =>
                   /\ Len(runs) = n
                   /\ Len(outcomes) = n
                   /\ pc = "done"
                   /\ response.ok
                   /\ \A m \in 1..(n - 1) : outcomes[m] = "threw"
        /\ (Len(outcomes) = 2 /\ outcomes[2] = "threw") =>
               /\ Len(runs) = 2
               /\ pc = "done"
               /\ ~response.ok

\* C2 witness: SeedEdit threw, Flux Schnell succeeded, two calls were made.
C2_Witness ==
    /\ server = "fallback"
    /\ outcomes = <<"threw", "ok">>
    /\ runs = <<"bytedance/seededit-3.0", "black-forest-labs/flux-schnell">>
    /\ pc = "done"
    /\ response.ok

\* C3: in the engine-fallback handler, when every candidate fails the answer
\* is HTTP 422 and its body carries the error detail of the last failed
\* attempt.
C3_AllFailedCarriesLastError ==
    (/\ server = "fallback"
     /\ pc = "done"
     /\ outcomes = <<"threw", "threw">>) =>
        /\ response.status = 422
        /\ response.detail = logged[Len(logged)]

\* A Flux request that supplies neither the reference image A nor the
\* secondary image B: no ref, and every alias of B absent or a bare data-URL
\* header with no payload.
FluxSuppliesNoImage ==
    /\ body.ref = <<>>
    /\ \A a \in {body.image_base64, body.image, body.image_b64, body.b64} :
           a \in { <<>>, HeaderOnly }

\* An engine-fallback request that supplies neither ref nor an uploaded file.
FallbackSuppliesNoImage ==
    /\ body.ref = <<>>
    /\ body.file = NoFile

SuppliesNoImage ==
    \/ server = "flux" /\ FluxSuppliesNoImage
    \/ server = "fallback" /\ FallbackSuppliesNoImage

\* The spellings of the four tags that the Flux handler guards.
GuardedSpellings ==
    { <<"q","a","-","u","s","e","b">>,
      <<"q","a","-","U","S","E","B">>,
      <<"q","a","-","r","e","p","l","a","c","e">>,
      <<"Q","A","-","R","e","p","l","a","c","e">>,
      <<"q","a","-","o","v","e","r","l","a","y">>,
      <<"q","a","-","i","n","s","e","r","t">> }

C5_MissingRefRejected ==
    (/\ server = "flux"
     /\ pc # "idle"
     /\ body.ref = <<>>
     /\ body.op \in { <<"q","a","-","r","e","p","l","a","c","e">>,
                      <<"Q","A","-","R","e","p","l","a","c","e">>,
                      <<"q","a","-","o","v","e","r","l","a","y">>,
                      <<"q","a","-","i","n","s","e","r","t">> }) =>
        /\ pc = "done"
        /\ nresp = 1
        /\ response.status = 400
        /\ response.text = "Missing A for AB operation; would fall back to txt2img."
        /\ creates = 0
        /\ polls = 0

\* C5 witness: QA-Replace in mixed case, no reference image, a secondary image
\* present, answered 400.
C5_Witness ==
    /\ server = "flux"
    /\ body.op = <<"Q","A","-","R","e","p","l","a","c","e">>
    /\ body.ref = <<>>
    /\ body.image_base64 = DataUrl
    /\ token # ""
    /\ pc = "done"
    /\ response.status = 400

\* C6: with an empty REPLICATE_API_TOKEN every request is answered at once,
\* with HTTP 401 unless a validation guard answered 400 first, and no
\* upstream call (job creation, status poll, replicate.run) is issued.
C6_NoTokenNoUpstreamCall ==
    (token = "" /\ server \in {"flux", "fallback"}) =>
        /\ pc = "done"
        /\ nresp = 1
        /\ creates = 0
        /\ polls = 0
        /\ runs = <<>>
        /\ response.status \in {400, 401}
        /\ response.status = 400 =>
               /\ server = "flux"
               /\ response.text \in
                      { "Missing A for AB operation; would fall back to txt2img.",
                        "Missing B for use only B." }

\* C6 witness: the Flux handler, no token, a request that passes the guards,
\* answered 401.
C6_Witness ==
    /\ token = ""
    /\ server = "flux"
    /\ body.op = <<>>
    /\ pc = "done"
    /\ response.status = 401
    /\ creates = 0

\* C7: every failure response of the Flux handler has a status in
\* {400, 401, 422, 500, 502, 504}, an error of the job-creation call included.
C7_FailureStatusInTaxonomy ==
    (server = "flux" /\ pc = "done" /\ ~response.ok) =>
        response.status \in {400, 401, 422, 500, 502, 504}

\* C8: the strength that buildFluxInputs places in the job input lies in
\* [0,1] for every numeric strength supplied: below 0 is sent as 0, above 1
\* as 1.
C8_StrengthClamped ==
    (/\ server = "flux"
     /\ creates = 1
     /\ \/ IsNumber(body.params.strength)
        \/ IsNumber(body.params.param_strength)) =>
        /\ inputs.strength >= 0
        /\ inputs.strength <= 100

\* The guidance buildFluxInputs sends for the request of the current state
\* with its strength replaced by s.
GuidanceAt(s) ==
    buildFluxInputs([body EXCEPT !.params.strength = <<s>>]).inputs.guidance

\* Strengths of [0,1] in steps of 0.05.
UnitStrengths == { 5 * k : k \in 0..20 }

NoGuidanceSupplied ==
    /\ ~IsNumber(body.params.guidance_scale)
    /\ ~IsNumber(body.params.guidance)

\* C9: with the tag and the other fields fixed and no guidance supplied, the
\* guidance sent upstream is non-decreasing in the supplied strength over
\* [0,1]; the guidance of the request at hand is the one of its strength.
\* Stated where the job input is sent (the job-creation call is in flight).
C9_GuidanceMonotone ==
    (/\ server = "flux"
     /\ pc = "create"
     /\ NoGuidanceSupplied) =>
        LET sent == [s \in UnitStrengths |-> GuidanceAt(s)] IN
        /\ \A s1, s2 \in UnitStrengths : s1 <= s2 => sent[s1] <= sent[s2]
        /\ IsNumber(body.params.strength) =>
               inputs.guidance = GuidanceAt(Num(body.params.strength))

\* C9 witness: strength 1.0 with no guidance supplied was sent with a guidance
\* no smaller than the one of strength 0.
C9_Witness ==
    /\ server = "flux"
    /\ pc = "create"
    /\ NoGuidanceSupplied
    /\ body.params.strength = <<100>>
    /\ body.op = <<>>
    /\ inputs.guidance >= GuidanceAt(0)

\* C10: with a strength and no guidance supplied, the guidance sent is
\* derived from the strength: 3 for strength 0.0 and 8 for strength 1.0.
C10_GuidanceFromStrength ==
    (/\ server = "flux"
     /\ creates = 1
     /\ NoGuidanceSupplied
     /\ IsNumber(body.params.strength)) =>
        /\ Num(body.params.strength) = 0 => inputs.guidance = 300
        /\ Num(body.params.strength) = 100 => inputs.guidance = 800

\* C11: in each of the three polling loops, once a status poll returned a
\* terminal status (succeeded, failed, canceled) no further poll is issued
\* for the job.
C11_NoPollAfterTerminal ==
    [][(/\ server \in {"flux", "part_001", "part_000"}
        /\ lastStatus \in {"succeeded", "failed", "canceled"})
       => polls' = polls]_vars

\* C12: whenever a handler answers with ok: true the response carries a
\* non-empty image reference; a job that succeeded with an empty or missing
\* output is not reported as a success. Stated for the two create-and-poll
\* handlers that answer with an ok flag.
C12_OkCarriesImage ==
    (server \in {"flux", "part_001"} /\ pc = "done" /\ response.ok) =>
        response.image \notin {"", "null", "undefined"}

\* C13: a request handled by the Flux handler gets exactly one response on
\* every path: never two, none before the handler is done, no upstream call
\* and no second response once it was sent, and, every upstream call
\* returning or throwing, a response is eventually sent.
C13_ExactlyOneResponse ==
    /\ [](server = "flux" => (nresp <= 1 /\ (pc = "done" <=> nresp = 1)))
    /\ [][(server = "flux" /\ nresp >= 1) =>
              (nresp' = nresp /\ creates' = creates /\ polls' = polls)]_vars
    /\ (server = "flux") ~> (pc = "done" /\ nresp = 1)

\* C13 witness: the longest path, answered once after the 80th poll.
C13_Witness ==
    /\ server = "flux"
    /\ pc = "done"
    /\ nresp = 1
    /\ creates = 1
    /\ polls = 80

\* C14: a status poll is issued only for a job whose creation call returned a
\* polling URL; a request whose creation response has none is answered with a
\* failure and no poll, HTTP 502 in the Flux handler.
C14_PollOnlyWithUrl ==
    /\ polls > 0 => pollUrl # ""
    /\ (pc = "done" /\ creates >= 1 /\ pollUrl = "") =>
           (~response.ok /\ polls = 0)
    /\ (server = "flux" /\ pc = "done"
        /\ response.text = "No polling URL from Replicate") =>
           response.status = 502

\* A qa-useb request of the Flux handler, in either spelling of the inputs.
IsUseB ==
    /\ server = "flux"
    /\ body.op \in { <<"q","a","-","u","s","e","b">>,
                     <<"q","a","-","U","S","E","B">> }

\* C15: for op qa-useb the Flux handler sends strength 0.0 whatever strength
\* was supplied, guidance 5.0 unless a numeric guidance was supplied (which is
\* kept, guidance_scale before guidance), and answers a request without a
\* secondary image B with HTTP 400 before any upstream call.
C15_UseBOverrides ==
    IsUseB =>
        /\ inputs.strength = 0
        /\ inputs.guidance =
               (IF IsNumber(body.params.guidance_scale)
                THEN Num(body.params.guidance_scale)
                ELSE IF IsNumber(body.params.guidance)
                THEN Num(body.params.guidance)
                ELSE 500)
        /\ (\A a \in {body.image_base64, body.image, body.image_b64, body.b64} :
                a \in { <<>>, HeaderOnly }) =>
               /\ pc = "done"
               /\ response.status = 400
               /\ response.text = "Missing B for use only B."
               /\ creates = 0
               /\ polls = 0

\* C15 witness: qa-useb with B and strength 1.0 supplied, submitted with
\* strength 0 and guidance 5.0.
C15_Witness ==
    /\ IsUseB
    /\ body.params.strength = <<100>>
    /\ body.b64 = RawBase64
    /\ pc = "create"
    /\ creates = 1
    /\ inputs.strength = 0
    /\ inputs.guidance = 500

====
